---------------------------- MODULE Spec2Model ----------------------------
(***************************************************************************)
(* Instant-runoff tabulation (src/main.ts).  The file holds two copies of  *)
(* the program: the first (lines 1-239) eliminates by lowest vote count,   *)
(* the second (lines 241-435) by lowest percent.  The variable `variant`   *)
(* says which copy runs.                                                   *)
(*                                                                         *)
(* A csv text is modelled as the table of its cells: a sequence of rows,   *)
(* every row the non-empty sequence of cells (strings) that split(',')     *)
(* gives for one line.  The empty line is the row <<"">>.  Candidates are  *)
(* the 0-based column numbers of the header row; a TLA+ sequence is        *)
(* 1-based, so the cell of candidate c in a row is row[c + 1].             *)
(*                                                                         *)
(* A percent is the quotient 100 * count / total of two small integers.    *)
(* It is kept as the pair [num, den]; den = 0 (with num = 0) is the NaN    *)
(* that 0 / 0 gives, and comparisons are done by cross-multiplication.     *)
(***************************************************************************)
EXTENDS Integers, Sequences, FiniteSets, TLC

VARIABLES variant, lines, pc, errors, report, initialBallots,
          initialDistribution, candidates, ballots, distribution, phase

vars == <<variant, lines, pc, errors, report, initialBallots,
          initialDistribution, candidates, ballots, distribution, phase>>

-----------------------------------------------------------------------------
(* Bounds of the model *)

MaxCandidates == 3
MaxBallots == 5
MaxShuffled == 4
MaxRawCandidates == 2
MaxRawRows == 2
MaxPhase == 6
WideCandidates == 5
WideBallots == 7
WideSecond == 2

-----------------------------------------------------------------------------
(* Generic helpers *)

Range(s) == { s[i] : i \in 1..Len(s) }

\* the sequence with the elements of the function f on 1..n, as a tuple
\* (a function constructor alone is evaluated anew at every application)
Array(f) == f \o << >>

\* Array.prototype.splice(j, 1) on a 0-based index j
Splice(s, j) == Array([ i \in 1..(Len(s) - 1) |-> IF i <= j THEN s[i] ELSE s[i + 1] ])

\* Array.prototype.filter
RECURSIVE SelectIdx(_, _, _)
SelectIdx(s, keep, i) ==
    IF i > Len(s) THEN << >>
    ELSE IF i \in keep THEN <<s[i]>> \o SelectIdx(s, keep, i + 1)
         ELSE SelectIdx(s, keep, i + 1)

\* a hole of a sparse array (an index never assigned)
Hole == -1

\* the value Math.min() gives for no arguments
Infinity == 1000000

-----------------------------------------------------------------------------
(* Cells of the csv *)

\* Boolean(x) of a string: only the empty string is falsy
Truthy(cell) == cell # ""

\* +x of a cell
Num(cell) ==
    CASE cell = "-1" -> -1
      [] cell = "0" -> 0
      [] cell = "1" -> 1
      [] cell = "2" -> 2
      [] cell = "3" -> 3
      [] cell = "4" -> 4
      [] cell = "5" -> 5

RankCell(r) ==
    CASE r = 1 -> "1"
      [] r = 2 -> "2"
      [] r = 3 -> "3"
      [] r = 4 -> "4"
      [] r = 5 -> "5"

\* csv.split('\n').filter(Boolean).map(s => s.split(',')): the empty lines
\* of the text are dropped, every other line becomes its row of cells
ParseCsv(table) ==
    SelectIdx(table, { i \in 1..Len(table) : table[i] # <<"">> }, 1)

-----------------------------------------------------------------------------
(* checkInvalidInput *)

\* Array.prototype.sort((a, b) => a - b): insertion of x after every
\* element not greater than x
RECURSIVE InsertAsc(_, _)
InsertAsc(sorted, x) ==
    IF sorted = << >> THEN <<x>>
    ELSE IF Head(sorted) <= x THEN <<Head(sorted)>> \o InsertAsc(Tail(sorted), x)
         ELSE <<x>> \o sorted

RECURSIVE SortAsc(_)
SortAsc(s) ==
    IF s = << >> THEN << >>
    ELSE InsertAsc(SortAsc(SelectIdx(s, 1..(Len(s) - 1), 1)), s[Len(s)])

\* lines[i].filter(Boolean).map(x => +x).sort((a, b) => a - b)
Rankings(row) ==
    LET kept == SelectIdx(row, { i \in 1..Len(row) : Truthy(row[i]) }, 1)
    IN  SortAsc(Array([ i \in 1..Len(kept) |-> Num(kept[i]) ]))

\* the inner loop started at j = 1: the smallest ranking is not looked at
InvalidRankingsFromSecond(row) ==
    LET rankings == Rankings(row)
    IN  \E j \in 2..Len(rankings) : rankings[j] # j

\* the inner for loop: some rankings[j] !== j + 1 (j 0-based)
InvalidRankings(row) ==
    LET rankings == Rankings(row)
    IN  \E j \in 1..Len(rankings) : rankings[j] # j

\* lines[i].length > headers.length
TooManyColumns(row, headers) == Len(row) > Len(headers)

\* the messages one row writes to console.error, in order; n is the
\* 1-based line number the message names
RowErrors(row, headers, n) ==
    (IF TooManyColumns(row, headers)
        THEN << [line |-> n, kind |-> "columns"] >> ELSE << >>)
    \o
    (IF InvalidRankings(row)
        THEN << [line |-> n, kind |-> "rankings"] >> ELSE << >>)

\* fail-fast: the outer loop stops at the first row with a problem
RECURSIVE CheckRowsFailFast(_, _)
CheckRowsFailFast(ls, n) ==
    IF n > Len(ls) THEN << >>
    ELSE IF RowErrors(ls[n], ls[1], n) # << >> THEN RowErrors(ls[n], ls[1], n)
         ELSE CheckRowsFailFast(ls, n + 1)

\* the outer for loop over lines[1..]: everything written to console.error
RECURSIVE CheckRows(_, _)
CheckRows(ls, n) ==
    IF n > Len(ls) THEN << >>
    ELSE RowErrors(ls[n], ls[1], n) \o CheckRows(ls, n + 1)

\* foundProblem at the end of checkInvalidInput
FoundProblem(ls) == CheckRows(ls, 2) # << >>

-----------------------------------------------------------------------------
(* generateReport: building the ballots *)

\* ballot[idx] = v on a JavaScript array (idx 0-based): an index past the
\* end grows the array and leaves holes; a negative index is no element
SetAt(ballot, idx, v) ==
    IF idx < 0 THEN ballot
    ELSE Array([ i \in 1..(IF idx + 1 > Len(ballot) THEN idx + 1 ELSE Len(ballot)) |->
                   IF i = idx + 1 THEN v
                   ELSE IF i <= Len(ballot) THEN ballot[i] ELSE Hole ])

\* the ranked candidates pushed in the order of their columns:
\* ballot.push(candidate)
RECURSIVE BuildBallotInColumnOrder(_, _, _)
BuildBallotInColumnOrder(arr, candidate, ballot) ==
    IF candidate > Len(arr) THEN ballot
    ELSE IF candidate = Len(arr) \/ arr[candidate + 1] = ""
         THEN BuildBallotInColumnOrder(arr, candidate + 1, ballot)
         ELSE BuildBallotInColumnOrder(arr, candidate + 1, Append(ballot, candidate))

\* for (candidate = 0; candidate <= arr.length; candidate++): arr[arr.length]
\* is undefined and skipped like an empty cell
RECURSIVE BuildBallot(_, _, _)
BuildBallot(arr, candidate, ballot) ==
    IF candidate > Len(arr) THEN ballot
    ELSE IF candidate = Len(arr) \/ ~Truthy(arr[candidate + 1])
         THEN BuildBallot(arr, candidate + 1, ballot)
         ELSE BuildBallot(arr, candidate + 1,
                          SetAt(ballot, Num(arr[candidate + 1]) - 1, candidate))

\* lines.slice(1).map(...)
InitialBallots(ls) ==
    Array([ i \in 1..(Len(ls) - 1) |-> BuildBallot(ls[i + 1], 0, << >>) ])

\* Array.from({ length: candidateNames.length }, (_, i) => i)
InitialCandidates(ls) == Array([ i \in 1..Len(ls[1]) |-> i - 1 ])

-----------------------------------------------------------------------------
(* Percents *)

\* 100 * count / total
Percent(count, total) == [num |-> 100 * count, den |-> total]

\* 0 / 0
IsNaN(p) == p.num = 0 /\ p.den = 0

\* Math.min() of nothing, as a percent
PercentInfinity == [num |-> 1, den |-> 0]

\* p > 50 (false for NaN)
Over50(p) == ~IsNaN(p) /\ p.num > 50 * p.den

\* p === q (false when either is NaN)
PercentEq(p, q) == ~IsNaN(p) /\ ~IsNaN(q) /\ p.num * q.den = q.num * p.den

\* p === 0
PercentIsZero(p) == ~IsNaN(p) /\ p.num = 0

\* p < q, neither NaN
PercentLess(p, q) == p.num * q.den < q.num * p.den

-----------------------------------------------------------------------------
(* getDistribution *)

\* ballots.filter(v => v[0] === candidate).length; v[0] of an empty ballot
\* is undefined
FirstCount(candidate, bs) ==
    Cardinality({ i \in 1..Len(bs) : bs[i] # << >> /\ bs[i][1] = candidate })

ShareOfVotes(candidate, bs) ==
    [ candidate |-> candidate,
      count     |-> FirstCount(candidate, bs),
      percent   |-> Percent(FirstCount(candidate, bs), Len(bs)) ]

\* shares.sort((a, b) => b.count - a.count), a stable sort: x goes after
\* every share whose count is not smaller
RECURSIVE InsertByCount(_, _)
InsertByCount(sorted, x) ==
    IF sorted = << >> THEN <<x>>
    ELSE IF Head(sorted).count >= x.count
         THEN <<Head(sorted)>> \o InsertByCount(Tail(sorted), x)
         ELSE <<x>> \o sorted

RECURSIVE SortByCount(_)
SortByCount(shares) ==
    IF shares = << >> THEN << >>
    ELSE InsertByCount(SortByCount(SelectIdx(shares, 1..(Len(shares) - 1), 1)),
                       shares[Len(shares)])

getDistribution(cands, bs) ==
    SortByCount(Array([ i \in 1..Len(cands) |-> ShareOfVotes(cands[i], bs) ]))

-----------------------------------------------------------------------------
(* removeCandidates *)

\* splice(j) without the count of 1: the eliminated candidate and everybody
\* ranked below leave the ballot
RECURSIVE StripBallotSpliceToEnd(_, _, _)
StripBallotSpliceToEnd(ballot, toRemove, j) ==
    IF j >= Len(ballot) THEN ballot
    ELSE IF ballot[j + 1] \in Range(toRemove)
         THEN SubSeq(ballot, 1, j)
         ELSE StripBallotSpliceToEnd(ballot, toRemove, j + 1)

\* the inner loop over one ballot from index j (0-based): splice(j, 1)
\* followed by j-- looks at the same index again
RECURSIVE StripBallot(_, _, _)
StripBallot(ballot, toRemove, j) ==
    IF j >= Len(ballot) THEN ballot
    ELSE IF ballot[j + 1] \in Range(toRemove)
         THEN StripBallot(Splice(ballot, j), toRemove, j)
         ELSE StripBallot(ballot, toRemove, j + 1)

\* the outer loop without i--: after a ballot is spliced out the ballot
\* that moved into its place is skipped
RECURSIVE RemoveFromBallotsSkipsNext(_, _, _)
RemoveFromBallotsSkipsNext(bs, toRemove, i) ==
    IF i >= Len(bs) THEN bs
    ELSE LET stripped == [bs EXCEPT ![i + 1] = StripBallot(bs[i + 1], toRemove, 0)]
         IN  IF stripped[i + 1] = << >>
             THEN RemoveFromBallotsSkipsNext(Splice(stripped, i), toRemove, i + 1)
             ELSE RemoveFromBallotsSkipsNext(stripped, toRemove, i + 1)

\* the outer loop over the ballots from index i (0-based): a ballot left
\* empty is spliced out and i-- looks at the same index again
RECURSIVE RemoveFromBallots(_, _, _)
RemoveFromBallots(bs, toRemove, i) ==
    IF i >= Len(bs) THEN bs
    ELSE LET stripped == [bs EXCEPT ![i + 1] = StripBallot(bs[i + 1], toRemove, 0)]
         IN  IF stripped[i + 1] = << >>
             THEN RemoveFromBallots(Splice(stripped, i), toRemove, i)
             ELSE RemoveFromBallots(stripped, toRemove, i + 1)

\* a shallow copy, [...initialBallots]: the working list is another array
\* of the same ballot arrays, so every splice of a ballot is seen in the
\* original list too; no ballot leaves the original list
InitialBallotsShared(ib, toRemove) ==
    Array([ i \in 1..Len(ib) |-> StripBallot(ib[i], toRemove, 0) ])

\* initialBallots after removeCandidates(toRemove): the working ballots
\* are initialBallots.map(ballot => [...ballot]), a new array of new
\* arrays, so the splices reach no array of the original list
InitialBallotsAfterRemove(ib, toRemove) == ib

\* the filter whose result is not kept: nobody leaves the list
RemoveFromCandidatesKeepsAll(cands, toRemove) == cands

\* candidates.filter(c => !toRemove.includes(c))
RemoveFromCandidates(cands, toRemove) ==
    SelectIdx(cands, { i \in 1..Len(cands) : cands[i] \notin Range(toRemove) }, 1)

-----------------------------------------------------------------------------
(* generateReport: who is eliminated *)

\* distribution.filter(...).map(({ candidate }) => candidate)
CandidatesWhere(dist, keep) ==
    LET kept == SelectIdx(dist, keep, 1)
    IN  Array([ i \in 1..Len(kept) |-> kept[i].candidate ])

\* a minimum that starts from 0: Math.min(0, ...counts)
LowestCountFromZero(dist) == 0

\* Math.min(...distribution.map(x => x.count))
LowestCount(dist) ==
    IF dist = << >> THEN Infinity
    ELSE CHOOSE m \in { dist[i].count : i \in 1..Len(dist) } :
             \A i \in 1..Len(dist) : m <= dist[i].count

\* the highest percent taken for the lowest: Math.max in the place of
\* Math.min
LowestPercentIsHighest(dist) ==
    IF dist = << >> THEN PercentInfinity
    ELSE IF \E i \in 1..Len(dist) : IsNaN(dist[i].percent) THEN Percent(0, 0)
    ELSE CHOOSE m \in { dist[i].percent : i \in 1..Len(dist) } :
             \A i \in 1..Len(dist) : ~PercentLess(m, dist[i].percent)

\* Math.min(...distribution.map(x => x.percent)): NaN as soon as one
\* argument is NaN
LowestPercent(dist) ==
    IF dist = << >> THEN PercentInfinity
    ELSE IF \E i \in 1..Len(dist) : IsNaN(dist[i].percent) THEN Percent(0, 0)
    ELSE CHOOSE m \in { dist[i].percent : i \in 1..Len(dist) } :
             \A i \in 1..Len(dist) : ~PercentLess(dist[i].percent, m)

\* count === lowestCount (first copy), percent === lowestPercent (second)
IsLowest(share, dist) ==
    IF variant = "count" THEN share.count = LowestCount(dist)
    ELSE PercentEq(share.percent, LowestPercent(dist))

\* one candidate at a time: only the last of those tied for last place
CandidatesToEliminateOnlyLast(dist) ==
    LET lowest == { i \in 1..Len(dist) : IsLowest(dist[i], dist) }
    IN  CandidatesWhere(dist, { i \in lowest : \A j \in lowest : j <= i })

\* a scan that starts at the second entry of the distribution
CandidatesToEliminateSkipFirst(dist) ==
    CandidatesWhere(dist, { i \in 2..Len(dist) : IsLowest(dist[i], dist) })

CandidatesToEliminate(dist) ==
    CandidatesWhere(dist, { i \in 1..Len(dist) : IsLowest(dist[i], dist) })

\* count === 0 (first copy), percent === 0 (second)
HasNoVotes(share) ==
    IF variant = "count" THEN share.count = 0
    ELSE PercentIsZero(share.percent)

CandidatesWithNoVotes(dist) ==
    CandidatesWhere(dist, { i \in 1..Len(dist) : HasNoVotes(dist[i]) })

\* distribution[0].percent > 50
HasWinner(dist) == Over50(dist[1].percent)

\* candidatesToEliminate.length === candidates.length
IsTie(toEliminate, cands) == Len(toEliminate) = Len(cands)

-----------------------------------------------------------------------------
(* The report: one record per piece of text appended to `report` *)

Section(kind, cands, dist, n, d) ==
    [kind |-> kind, cands |-> cands, dist |-> dist, n |-> n, d |-> d]

Title == Section("title", << >>, << >>, 0, 0)
Phase1Header == Section("phase1", << >>, << >>, 1, 0)
NoWinner == Section("noWinner", << >>, << >>, 0, 0)
\* printTable
Table(dist) == Section("table", << >>, dist, 0, 0)
BallotsCast(n) == Section("ballotsCast", << >>, << >>, n, 0)
NoVotesList(cands) == Section("noVotes", cands, << >>, 0, 0)
LowestList(cands) == Section("lowest", cands, << >>, 0, 0)
TieText(k) == Section("tie", << >>, << >>, k, 0)
WonRightAway(dist) == Section("wonRightAway", <<dist[1].candidate>>, << >>, 0, 0)
Wins(dist) == Section("wins", <<dist[1].candidate>>, << >>, 0, 0)
\* the heading written before phase += 1
PhaseHeaderBeforeIncrement(n) == Section("phase", << >>, << >>, n - 1, 0)

\* `## Phase ${phase}`
PhaseHeader(n) == Section("phase", << >>, << >>, n, 0)
\* eliminatedBallots / initialBallots.length
BallotsEliminated(n, d) == Section("ballotsEliminated", << >>, << >>, n, d)

-----------------------------------------------------------------------------
(* Inputs *)

CandidateName(c) ==
    CASE c = 0 -> "A" [] c = 1 -> "B" [] c = 2 -> "C" [] c = 3 -> "D" [] c = 4 -> "E"

Header(nc) == Array([ i \in 1..nc |-> CandidateName(i - 1) ])

\* every ranking of some of the candidates 0..nc-1, best first
Rankable(nc) ==
    UNION { { b \in [1..k -> 0..(nc - 1)] :
                \A i, j \in 1..k : i # j => b[i] # b[j] } : k \in 0..nc }

\* the csv row of a voter who ranks the candidates as b does
RowOf(b, nc) ==
    Array([ i \in 1..nc |->
              IF \E r \in 1..Len(b) : b[r] = i - 1
              THEN RankCell(CHOOSE r \in 1..Len(b) : b[r] = i - 1)
              ELSE "" ])

\* a number for every ranking, used to list the ballots of a table in a
\* fixed order
RECURSIVE Code(_, _)
Code(b, nc) ==
    IF b = << >> THEN 0 ELSE (Head(b) + 1) + (nc + 1) * Code(Tail(b), nc)

\* the rankings of nb voters; past MaxShuffled voters the model only takes
\* the tables that list the ballots in the order of their codes
Electorates(nc, nb) ==
    { bs \in [1..nb -> Rankable(nc)] :
        nb > MaxShuffled =>
            \A i \in 1..(nb - 1) : Code(bs[i], nc) <= Code(bs[i + 1], nc) }

\* the rankings of exactly k of the nc candidates
RankingsOfLen(nc, k) == { b \in Rankable(nc) : Len(b) = k }

\* the lists of nb rankings out of the set S in the order of their codes
RECURSIVE InCodeOrder(_, _, _)
InCodeOrder(nb, S, nc) ==
    IF nb = 0 THEN { << >> }
    ELSE UNION { { <<b>> \o rest :
                     rest \in InCodeOrder(nb - 1,
                                          { c \in S : Code(c, nc) >= Code(b, nc) }, nc) } :
                 b \in S }

\* a rectangular table: the header and one well-formed row per voter
Table_(nc, bs) ==
    <<Header(nc)>> \o Array([ i \in 1..Len(bs) |-> RowOf(bs[i], nc) ])

RawCells == {"", "-1", "0", "1", "2", "3"}

\* any row at all for a header of nc candidates, also ragged and ill-formed
RawRows(nc) == UNION { [1..w -> RawCells] : w \in 1..(nc + 1) }

-----------------------------------------------------------------------------
(* The program *)

Start(v, csv) ==
    /\ variant = v
    /\ lines = ParseCsv(csv)
    /\ pc = "start"
    /\ errors = << >>
    /\ report = << >>
    /\ initialBallots = << >>
    /\ initialDistribution = << >>
    /\ candidates = << >>
    /\ ballots = << >>
    /\ distribution = << >>
    /\ phase = 1

\* the first copy of the program on a rectangular table with a header and
\* well-formed ballot rows
Init ==
    \E nc \in 1..MaxCandidates, nb \in 0..MaxBallots :
        \E bs \in Electorates(nc, nb) : Start("count", Table_(nc, bs))

\* the second copy of the program on the same tables
InitPercent ==
    \E nc \in 1..MaxCandidates, nb \in 0..MaxBallots :
        \E bs \in Electorates(nc, nb) : Start("percent", Table_(nc, bs))

\* the first copy of the program on tables of WideCandidates candidates and
\* WideBallots voters, of whom up to WideSecond name a second preference
\* and the others one candidate only: tables on which the loop can
\* eliminate twice
InitWide ==
    \E k \in 0..WideSecond :
        \E two \in InCodeOrder(k, RankingsOfLen(WideCandidates, 2), WideCandidates) :
            \E one \in InCodeOrder(WideBallots - k, RankingsOfLen(WideCandidates, 1),
                                    WideCandidates) :
                Start("count", Table_(WideCandidates, two \o one))

\* the first copy of the program on any input, also the empty text
InitRaw ==
    \/ Start("count", << >>)
    \/ \E nc \in 1..MaxRawCandidates, nb \in 0..MaxRawRows :
           \E rows \in [1..nb -> RawRows(nc)] :
               Start("count", <<Header(nc)>> \o rows)

\* checkInvalidInput(lines): process.exit(1) when a row has a problem
CheckInvalidInput ==
    /\ pc = "start"
    /\ errors' = CheckRows(lines, 2)
    /\ pc' = IF FoundProblem(lines) THEN "exit" ELSE "checked"
    /\ UNCHANGED <<variant, lines, report, initialBallots, initialDistribution,
                   candidates, ballots, distribution, phase>>

\* generateReport from the ballots to the end of phase 1.  Without a header
\* row candidateNames is undefined and candidateNames.length throws.
InitialResults ==
    /\ pc = "checked"
    /\ IF lines = << >>
       THEN /\ pc' = "crash"
            /\ report' = <<Title>>
            /\ UNCHANGED <<initialBallots, initialDistribution, candidates,
                           ballots, distribution>>
       ELSE LET ib == InitialBallots(lines)
                ic == InitialCandidates(lines)
                id == getDistribution(ic, ib)
            IN  /\ initialBallots' = ib
                /\ initialDistribution' = id
                /\ IF HasWinner(id)
                   THEN /\ pc' = "Won"
                        /\ report' = <<Title, Phase1Header, WonRightAway(id), Table(id)>>
                        /\ UNCHANGED <<candidates, ballots, distribution>>
                   ELSE /\ pc' = "phase1"
                        /\ report' = <<Title, Phase1Header, NoWinner, Table(id),
                                       BallotsCast(Len(ib))>>
                        /\ candidates' = ic
                        /\ ballots' = ib
                        /\ distribution' = id
    /\ UNCHANGED <<variant, lines, errors, phase>>

\* the candidates without a vote leave before the loop; phase = 1
NoVotesElimination ==
    /\ pc = "phase1"
    /\ LET noVotes == CandidatesWithNoVotes(distribution)
       IN  IF Len(noVotes) > 0
           THEN LET cs == RemoveFromCandidates(candidates, noVotes)
                    bs == RemoveFromBallots(ballots, noVotes, 0)
                IN  /\ report' = Append(report, NoVotesList(noVotes))
                    /\ candidates' = cs
                    /\ ballots' = bs
                    /\ initialBallots' = InitialBallotsAfterRemove(initialBallots, noVotes)
                    /\ distribution' = getDistribution(cs, bs)
           ELSE UNCHANGED <<report, candidates, ballots, initialBallots, distribution>>
    /\ pc' = "loop"
    /\ phase' = 1
    /\ UNCHANGED <<variant, lines, errors, initialDistribution>>

\* one iteration of while (true)
LoopIteration ==
    /\ pc = "loop"
    /\ phase < MaxPhase
    /\ phase' = phase + 1
    /\ LET toEliminate == CandidatesToEliminate(distribution)
       IN  IF IsTie(toEliminate, candidates)
           THEN /\ report' = Append(report, TieText(Len(candidates)))
                /\ pc' = "Tie"
                /\ UNCHANGED <<candidates, ballots, initialBallots, distribution>>
           ELSE LET cs == RemoveFromCandidates(candidates, toEliminate)
                    bs == RemoveFromBallots(ballots, toEliminate, 0)
                    ib == InitialBallotsAfterRemove(initialBallots, toEliminate)
                    dist == getDistribution(cs, bs)
                    gone == Len(ib) - Len(bs)
                    head == report \o <<LowestList(toEliminate), PhaseHeader(phase')>>
                IN  /\ candidates' = cs
                    /\ ballots' = bs
                    /\ initialBallots' = ib
                    /\ distribution' = dist
                    /\ IF HasWinner(dist)
                       THEN /\ pc' = "Won"
                            /\ report' = head \o
                                 <<Wins(dist), BallotsEliminated(gone, Len(ib)),
                                   Table(dist)>>
                       ELSE /\ pc' = "loop"
                            /\ report' = head \o
                                 <<NoWinner, BallotsEliminated(gone, Len(ib)),
                                   Table(dist)>>
    /\ UNCHANGED <<variant, lines, errors, initialDistribution>>

Next ==
    \/ CheckInvalidInput
    \/ InitialResults
    \/ NoVotesElimination
    \/ LoopIteration

Spec == Init /\ [][Next]_vars

SpecPercent == InitPercent /\ [][Next]_vars

SpecRaw == InitRaw /\ [][Next]_vars

SpecWide == InitWide /\ [][Next]_vars

\* both copies of the program on the same tables
SpecBothCopies == (Init \/ InitPercent) /\ [][Next]_vars

-----------------------------------------------------------------------------
(* What the properties below talk about *)

NumCandidates == IF lines = << >> THEN 0 ELSE Len(lines[1])

NumBallotRows == IF lines = << >> THEN 0 ELSE Len(lines) - 1

Terminal == pc \in {"Won", "Tie"}

\* the first-preference count of candidate c among the ballots bs, counted
\* on the ballots themselves
Votes(c, bs) == Cardinality({ i \in 1..Len(bs) : Len(bs[i]) > 0 /\ bs[i][1] = c })

\* c holds strictly more than half of the ballots bs
Majority(c, bs) == 2 * Votes(c, bs) > Len(bs)

\* the candidate the report names as the winner
DeclaredWinners ==
    { report[i].cands[1] : i \in { j \in 1..Len(report) :
                                      report[j].kind \in {"wonRightAway", "wins"} } }

\* the candidates and the ballots of the phase the program is in: before
\* the working copies exist they are all the candidates and all the ballots
PhaseCandidates == IF pc = "Won" /\ phase = 1 THEN InitialCandidates(lines) ELSE candidates

PhaseBallots == IF pc = "Won" /\ phase = 1 THEN initialBallots ELSE ballots

\* a loop iteration that eliminated (it did not end in Tie)
Eliminated == pc = "loop" /\ phase' = phase + 1 /\ pc' # "Tie"

\* the guards of the four steps: the program is at a step it can take
CanStep ==
    /\ pc \in {"start", "checked", "phase1", "loop"}
    /\ pc = "loop" => phase < MaxPhase

LowestVotes(cands, bs) ==
    { c \in Range(cands) : \A d \in Range(cands) : Votes(c, bs) <= Votes(d, bs) }

-----------------------------------------------------------------------------
(* Properties *)

\* C1: on a table with at least one candidate and one ballot row the run
\* ends in Won or Tie, and when it has ended the phase counter is at most
\* the number of candidates.  Stated on the states of a run: it never
\* aborts, it can go on until it has ended, and the loop is only entered
\* while the phase counter is below the number of candidates, so that
\* the phases run out.
C1_ReachesOutcomeWithinCandidateCount ==
    (NumCandidates >= 1 /\ NumBallotRows >= 1) =>
        /\ pc \notin {"exit", "crash"}
        /\ ~Terminal => CanStep
        /\ pc = "loop" => phase < NumCandidates
        /\ Terminal => phase <= NumCandidates

\* a run that needed three phases
C1_Witness == Terminal /\ phase = 3 /\ NumCandidates = 3

\* C2: Won is declared in a phase exactly when a candidate still in the
\* race holds strictly more than half of the live ballots (2 * count >
\* ballots), never on exactly half, and the declared winner is that
\* candidate.
C2_WonIffStrictMajority ==
    /\ pc = "Won" =>
          /\ Cardinality(DeclaredWinners) = 1
          /\ \A w \in DeclaredWinners :
                 /\ w \in Range(PhaseCandidates)
                 /\ Majority(w, PhaseBallots)
          /\ \A c \in Range(PhaseCandidates) :
                 Majority(c, PhaseBallots) => c \in DeclaredWinners
    /\ pc \in {"phase1", "loop", "Tie"} =>
          /\ DeclaredWinners = {}
          /\ \A c \in Range(candidates) : ~Majority(c, ballots)

\* C3: a loop iteration that does not end in Tie eliminates exactly the
\* candidates whose count is the lowest of the phase: all of them, and
\* nobody with more votes.
C3_EliminatesExactlyTheLowest ==
    [][Eliminated =>
          /\ Range(candidates) \ Range(candidates') = LowestVotes(candidates, ballots)
          /\ Range(candidates') \subseteq Range(candidates)
          /\ Range(report'[Len(report) + 1].cands) = LowestVotes(candidates, ballots)]_vars

\* two candidates tied for last place left together, a third stayed
C3_Witness ==
    \E i \in 1..Len(report) :
        report[i].kind = "lowest" /\ Len(report[i].cands) >= 2

\* C4: when all the remaining candidates are tied for the lowest count the
\* outcome is a k-way Tie, k the number of remaining candidates, and
\* nothing is eliminated: candidates and ballots stay as they are.
C4_TieLeavesEverything ==
    [][(pc = "loop" /\ phase' = phase + 1
          /\ LowestVotes(candidates, ballots) = Range(candidates)) =>
          /\ pc' = "Tie"
          /\ report' = Append(report, TieText(Len(candidates)))
          /\ candidates' = candidates
          /\ ballots' = ballots]_vars

\* a tie between two or more candidates
C4_Witness ==
    /\ pc = "Tie" /\ Len(candidates) >= 2
    /\ report[Len(report)] = TieText(Len(candidates))

\* C5: every elimination of the loop removes at least one candidate and
\* leaves at least one, so the number of candidates falls from each phase
\* to the next.
C5_CandidatesStrictlyDecrease ==
    [][Eliminated => 0 < Len(candidates') /\ Len(candidates') < Len(candidates)]_vars

\* an elimination after which the loop goes on with two candidates
C5_Witness == pc = "loop" /\ phase = 2 /\ Len(candidates) = 2


\* the sum of the counts of a distribution
RECURSIVE SumCounts(_)
SumCounts(dist) == IF dist = << >> THEN 0 ELSE Head(dist).count + SumCounts(Tail(dist))

\* C6: in every phase, phase 1 included, the counts of the distribution add
\* up to the number of ballots the percents are taken of.
C6_CountsSumToDenominator ==
    /\ \A i \in 1..Len(initialDistribution) :
           initialDistribution[i].percent.den = SumCounts(initialDistribution)
    /\ \A i \in 1..Len(distribution) :
           distribution[i].percent.den = SumCounts(distribution)

\* the cells of a row that hold something
NonEmptyCells(row) == { i \in 1..Len(row) : row[i] # "" }

\* the ballot rows of the table with at least one non-empty cell
NonEmptyRows == { n \in 2..Len(lines) : NonEmptyCells(lines[n]) # {} }

\* C7: a ballot row without any non-empty cell is dropped before the
\* tabulation: it is neither in the original ballot total nor in the
\* denominator of the phase 1 distribution.
C7_EmptyBallotsDroppedBeforeTabulation ==
    pc \in {"phase1", "loop", "Won", "Tie"} =>
        /\ Len(initialBallots) = Cardinality(NonEmptyRows)
        /\ \A i \in 1..Len(initialBallots) : initialBallots[i] # << >>
        /\ \A i \in 1..Len(initialDistribution) :
               initialDistribution[i].percent.den = Cardinality(NonEmptyRows)

\* C8: input without a candidate or without a ballot row is rejected as
\* malformed: the run gets no further than the validation, so there is no
\* report, no winner, no tie and no percent of a zero total.
C8_DegenerateInputRejected ==
    (NumCandidates = 0 \/ NumBallotRows = 0) =>
        /\ pc \in {"start", "checked", "exit"}
        /\ report = << >>
        /\ \A i \in 1..Len(initialDistribution) : ~IsNaN(initialDistribution[i].percent)

\* the non-empty cells of the row hold every rank 1..k exactly once, k the
\* number of non-empty cells
RanksExactly1toK(row) ==
    \A r \in 1..Cardinality(NonEmptyCells(row)) :
        Cardinality({ i \in NonEmptyCells(row) : Num(row[i]) = r }) = 1

\* checkInvalidInput wrote an error for line n
RowRejected(n) == \E i \in 1..Len(errors) : errors[i].line = n

\* C9, as amended: checkInvalidInput rejects a ballot row exactly when its
\* ranks are not each of 1..k once or when it has more cells, the empty
\* ones included, than there are candidates.
C9_RejectsExactlyMalformedRows ==
    pc # "start" =>
        \A n \in 2..Len(lines) :
            RowRejected(n) <=>
                (~RanksExactly1toK(lines[n]) \/ Len(lines[n]) > NumCandidates)

\* a row with well-formed ranks and a surplus empty cell was rejected
C9_Witness ==
    \E n \in 2..Len(lines) :
        /\ RowRejected(n)
        /\ RanksExactly1toK(lines[n])
        /\ Cardinality(NonEmptyCells(lines[n])) <= NumCandidates

\* C9, as claimed: rows with other ranks than 1..k or with more entries
\* than candidates are rejected, and a row whose ranks are exactly 1..k
\* with k at most the number of candidates is accepted.
C9_AcceptsEveryRowRanked1toK ==
    pc # "start" =>
        \A n \in 2..Len(lines) :
            /\ ~RanksExactly1toK(lines[n]) => RowRejected(n)
            /\ Cardinality(NonEmptyCells(lines[n])) > NumCandidates => RowRejected(n)
            /\ (RanksExactly1toK(lines[n])
                  /\ Cardinality(NonEmptyCells(lines[n])) <= NumCandidates)
                 => ~RowRejected(n)

\* a ballot row checkInvalidInput has to refuse
Malformed(n) == ~RanksExactly1toK(lines[n]) \/ Len(lines[n]) > NumCandidates

\* C10: when a ballot row is malformed, every malformed row gets its error,
\* not only the first, the run aborts, nothing is tabulated and the report
\* stays empty.
C10_ValidationAllOrNothing ==
    (pc # "start" /\ \E n \in 2..Len(lines) : Malformed(n)) =>
        /\ pc = "exit"
        /\ \A n \in 2..Len(lines) : Malformed(n) => RowRejected(n)
        /\ report = << >>
        /\ initialBallots = << >> /\ initialDistribution = << >>
        /\ candidates = << >> /\ ballots = << >> /\ distribution = << >>
        /\ phase = 1

\* the run aborted with errors for two different rows
C10_Witness ==
    /\ pc = "exit"
    /\ \E m, n \in 2..Len(lines) : m # n /\ RowRejected(m) /\ RowRejected(n)

\* C11: of every row that passed the validation, with k ranked cells, the
\* ballot has length k, no hole and no candidate twice; the candidate
\* whose cell holds rank r is at index r - 1 and nobody else is on it.
C11_NormalizedBallotFollowsRanks ==
    pc \in {"phase1", "loop", "Won", "Tie"} =>
        /\ Len(initialBallots) = Len(lines) - 1
        /\ \A n \in 2..Len(lines) :
               LET row == lines[n]
                   ballot == initialBallots[n - 1]
                   ranked == NonEmptyCells(row)
               IN  /\ Len(ballot) = Cardinality(ranked)
                   /\ \A i \in 1..Len(ballot) : ballot[i] # Hole
                   /\ \A i, j \in 1..Len(ballot) : i # j => ballot[i] # ballot[j]
                   /\ \A c \in ranked : ballot[Num(row[c])] = c - 1
                   /\ Range(ballot) = { c - 1 : c \in ranked }

\* a row that ranks the second candidate above the first became the
\* ballot with the second candidate first
C11_Witness ==
    /\ pc \in {"phase1", "loop", "Won", "Tie"}
    /\ \E n \in 2..Len(lines) :
           /\ lines[n] = <<"2", "1">>
           /\ initialBallots[n - 1] = <<1, 0>>

\* the candidates the first copy takes for the lowest of a distribution
\* (count === lowestCount) and those the second copy takes
\* (percent === lowestPercent)
MinCountSet(dist) ==
    { dist[i].candidate : i \in { j \in 1..Len(dist) : dist[j].count = LowestCount(dist) } }

MinPercentSet(dist) ==
    { dist[i].candidate :
        i \in { j \in 1..Len(dist) : PercentEq(dist[j].percent, LowestPercent(dist)) } }

Diverges(dist) == MinCountSet(dist) # MinPercentSet(dist)

\* C12, as amended: on a table with at least one ballot row the two
\* criteria never diverge.  In every phase of either copy, also after
\* ballots have been dropped, the candidates with the lowest percent are
\* the candidates with the lowest count: all percents of a distribution
\* are taken of the same number of live ballots.
C12_CriteriaNeverDiverge ==
    NumBallotRows >= 1 =>
        /\ ~Diverges(initialDistribution)
        /\ ~Diverges(distribution)
        /\ \A i \in 1..Len(distribution) :
               /\ distribution[i].percent.den = Len(ballots)
               /\ distribution[i].percent.num = 100 * distribution[i].count

\* the second copy in its loop after a ballot was dropped as empty by an
\* elimination, with two candidates left that share the lowest place by
\* count and by percent
C12_Witness ==
    /\ variant = "percent" /\ pc = "loop" /\ phase >= 2
    /\ \A i \in 1..Len(initialBallots) : initialBallots[i] # << >>
    /\ Len(ballots) < Len(initialBallots)
    /\ Len(candidates) >= 2
    /\ MinPercentSet(distribution) = Range(candidates)
    /\ MinCountSet(distribution) = Range(candidates)

\* some phase of the loop started with the candidates cands and the
\* ballots bs has a recomputed distribution on which the criteria differ
RECURSIVE LoopDiverges(_, _)
LoopDiverges(cands, bs) ==
    LET toEliminate == CandidatesToEliminate(getDistribution(cands, bs))
        cs == RemoveFromCandidates(cands, toEliminate)
        left == RemoveFromBallots(bs, toEliminate, 0)
    IN  /\ ~IsTie(toEliminate, cands)
        /\ \/ Diverges(getDistribution(cs, left))
           \/ ~HasWinner(getDistribution(cs, left)) /\ LoopDiverges(cs, left)

\* some phase of the run on the table ls has a distribution on which the
\* criteria differ
RunDiverges(ls) ==
    LET id == getDistribution(InitialCandidates(ls), InitialBallots(ls))
        noVotes == CandidatesWithNoVotes(id)
        cs == RemoveFromCandidates(InitialCandidates(ls), noVotes)
        bs == RemoveFromBallots(InitialBallots(ls), noVotes, 0)
    IN  \/ Diverges(id)
        \/ /\ ~HasWinner(id)
           /\ \/ Diverges(getDistribution(cs, bs))
              \/ LoopDiverges(cs, bs)

\* C12, as claimed: there is a table with at least one ballot row whose
\* run has a phase in which the candidates with the lowest percent are not
\* the candidates with the lowest count.
C12_CriteriaCanDiverge ==
    \E nc \in 1..MaxCandidates, nb \in 1..MaxBallots :
        \E bs \in Electorates(nc, nb) :
            LET ls == ParseCsv(Table_(nc, bs))
            IN  Len(ls) >= 2 /\ RunDiverges(ls)

\* the table of candidates A, B, C and ballots [A,B], [A,B], [B,A], [C,A]
Scenario2 ==
    << <<"A", "B", "C">>,
       <<"1", "2", "">>,
       <<"1", "2", "">>,
       <<"2", "1", "">>,
       <<"2", "", "1">> >>

\* what the run on Scenario2 does up to the end of phase 1: nobody wins, A
\* holds exactly half of the four ballots, and B and C leave together in
\* the first elimination of the loop
Scenario2Phase1 ==
    /\ pc \in {"start", "checked", "phase1", "loop", "Won"}
    /\ pc \in {"phase1", "loop", "Won"} =>
          /\ initialDistribution[1] =
                 [candidate |-> 0, count |-> 2, percent |-> Percent(2, 4)]
          /\ ~HasWinner(initialDistribution)
          /\ 2 * initialDistribution[1].count = Len(initialBallots)
          /\ report[3] = NoWinner
    /\ pc \in {"phase1", "loop"} =>
          /\ phase = 1 /\ candidates = <<0, 1, 2>>
          /\ ballots = <<<<0, 1>>, <<0, 1>>, <<1, 0>>, <<2, 0>>>>
    /\ pc = "Won" =>
          /\ phase = 2
          /\ candidates = <<0>>
          /\ report[6] = LowestList(<<1, 2>>)
          /\ report[7] = PhaseHeader(2)
          /\ report[8] = Wins(distribution)
          /\ distribution[1].candidate = 0

\* C13, as amended: on Scenario2 phase 1 has no winner (A has exactly
\* 50%), B and C are eliminated together, every ballot keeps A and so
\* none is dropped, and A wins in Phase 2 with 4 of 4 ballots.
C13_Scenario2WinsWithAllFourBallots ==
    lines = Scenario2 =>
        /\ Scenario2Phase1
        /\ pc = "Won" =>
              /\ ballots = <<<<0>>, <<0>>, <<0>>, <<0>>>>
              /\ distribution =
                     << [candidate |-> 0, count |-> 4, percent |-> Percent(4, 4)] >>
              /\ report[9] = BallotsEliminated(0, 4)

\* the run on Scenario2 has ended
C13_Witness == lines = Scenario2 /\ pc = "Won" /\ phase = 2

\* C13, as claimed: on Scenario2 the third ballot becomes empty and is
\* dropped, 3 live ballots remain and A wins in Phase 2 with 3 of 3.
C13_Scenario2WinsWithThreeBallots ==
    lines = Scenario2 =>
        /\ Scenario2Phase1
        /\ pc = "Won" =>
              /\ ballots = <<<<0>>, <<0>>, <<0>>>>
              /\ distribution =
                     << [candidate |-> 0, count |-> 3, percent |-> Percent(3, 3)] >>
              /\ report[9] = BallotsEliminated(1, 4)

\* a step that called removeCandidates: the zero-vote elimination when
\* somebody has no vote, or a loop iteration that did not end in Tie
RemoveCalled == pc \in {"phase1", "loop"} /\ candidates' # candidates

\* the argument of that call, as the report lists it
ReportedRemoved == Range(report'[Len(report) + 1].cands)

\* the sequence s without the members of the set gone, in the same order
Without(s, gone) == SelectIdx(s, { i \in 1..Len(s) : s[i] \notin gone }, 1)

\* the ballots bs, each without the candidates gone, and without the
\* ballots that have nobody left
StrippedAndPruned(bs, gone) ==
    LET stripped == Array([ i \in 1..Len(bs) |-> Without(bs[i], gone) ])
    IN  SelectIdx(stripped, { i \in 1..Len(stripped) : stripped[i] # << >> }, 1)

\* everybody named on the ballots bs
OnBallots(bs) == UNION { Range(bs[i]) : i \in 1..Len(bs) }

\* C14: a call of removeCandidates leaves the previous ballots, in their
\* order, each without the removed candidates and otherwise as it was,
\* less every ballot that is empty; afterwards every live ballot is
\* non-empty and names only candidates still in the race, and from then
\* on nobody comes back to the candidates, a ballot or the distribution.
C14_RemoveCandidatesStripsAndPrunes ==
    [][/\ RemoveCalled =>
            /\ candidates' = Without(candidates, ReportedRemoved)
            /\ ballots' = StrippedAndPruned(ballots, ReportedRemoved)
            /\ \A i \in 1..Len(ballots') : ballots'[i] # << >>
            /\ OnBallots(ballots') \subseteq Range(candidates')
            /\ { distribution'[i].candidate : i \in 1..Len(distribution') }
                   = Range(candidates')
       /\ pc \in {"phase1", "loop"} =>
            /\ Range(candidates') \subseteq Range(candidates)
            /\ OnBallots(ballots') \subseteq OnBallots(ballots)
            /\ { distribution'[i].candidate : i \in 1..Len(distribution') }
                   \subseteq Range(candidates)]_vars

\* two ballots next to each other were both dropped by the elimination of
\* the loop, and ballots are left
C14_Witness ==
    /\ pc = "Won" /\ phase = 2 /\ Len(ballots) >= 1
    /\ \E i \in 1..(Len(initialBallots) - 1) :
           /\ initialBallots[i] # << >> /\ initialBallots[i + 1] # << >>
           /\ Range(initialBallots[i]) \cap Range(candidates) = {}
           /\ Range(initialBallots[i + 1]) \cap Range(candidates) = {}

\* the "ballots eliminated" figure the step adds to the report, if any
NewBallotsEliminated ==
    { report'[i] : i \in { j \in (Len(report) + 1)..Len(report') :
                              report'[j].kind = "ballotsEliminated" } }

PhaseHeaders == SelectIdx(report, { i \in 1..Len(report) : report[i].kind = "phase" }, 1)

\* the report lists candidates eliminated for having no votes
NoVotesReported == \E i \in 1..Len(report) : report[i].kind = "noVotes"

\* C16: the zero-vote elimination does not count as a phase.  Whether or
\* not it took place, the loop starts with the phase counter at 1, its
\* first elimination opens Phase 2 and each later one the phase numbered
\* one higher; the counter is the number of the last phase opened (one more
\* when the run ended in a tie, which opens no phase).
C16_PhasesNumberedFromTwo ==
    /\ \A j \in 1..Len(PhaseHeaders) : PhaseHeaders[j].n = j + 1
    /\ pc \in {"loop", "Won"} => phase = Len(PhaseHeaders) + 1
    /\ pc = "Tie" => phase = Len(PhaseHeaders) + 2
    /\ pc \in {"start", "checked", "phase1"} => phase = 1 /\ PhaseHeaders = << >>

\* a run with candidates eliminated for having no votes, then Phase 2 and
\* then Phase 3
C16_Witness ==
    /\ NoVotesReported
    /\ Len(PhaseHeaders) = 2
    /\ PhaseHeaders[1] = PhaseHeader(2) /\ PhaseHeaders[2] = PhaseHeader(3)
    /\ \E i \in 1..Len(report) :
           report[i].kind = "noVotes" /\ report[i + 1].kind = "lowest"
              /\ report[i + 2] = PhaseHeader(2)

\* C17: on a table with at least one non-empty ballot a tie is only ever
\* declared among two candidates or more, and the run never goes on with
\* exactly one candidate left by an elimination, the zero-vote
\* elimination included: that candidate has won.
C17_TieOnlyAmongTwoOrMore ==
    NonEmptyRows # {} =>
        /\ pc = "Tie" => Len(candidates) >= 2
        /\ \A i \in 1..Len(report) : report[i].kind = "tie" => report[i].n >= 2
        /\ (pc \in {"loop", "Tie"} /\ Len(candidates) = 1) => FALSE

\* a step of the loop that removed the lowest candidates
LoopEliminated == pc = "loop" /\ pc' \in {"loop", "Won"}

\* C18: after every elimination of the loop there are live ballots and
\* every candidate left holds at least one of them as first preference, so
\* that no percent of the new distribution is taken of zero ballots.
C18_LiveBallotsAfterLoopElimination ==
    [][LoopEliminated =>
          /\ Len(ballots') >= 1
          /\ Len(candidates') >= 1
          /\ \A c \in Range(candidates') : Votes(c, ballots') >= 1
          /\ \A i \in 1..Len(distribution') :
                 /\ distribution'[i].percent.den >= 1
                 /\ ~IsNaN(distribution'[i].percent)]_vars

=============================================================================
